---- MODULE Spec2Model ----
(***************************************************************************)
(* Award presentation editor: the EditorPanel working copy (ordering, tabs, *)
(* layout, save) together with the App shell that owns the displayed        *)
(* collection and the key-value backed HTTP service it saves to.            *)
(* Indices are zero-based as in the source; At(s, i) reads s[i].            *)
(***************************************************************************)
EXTENDS Integers, Sequences, FiniteSets, TLC

\* ------------------------------------------------------------------ bounds
MaxLen == 3
MaxId == 3
MaxEdits == 1

NoIndex == -1
NoOrder == -1

\* ------------------------------------------------------- sequence helpers
At(s, i) == s[i + 1]

Ids(s) == {s[k].id : k \in 1..Len(s)}

IdSeq(s) == [k \in 1..Len(s) |-> s[k].id]

RemoveAt(s, i) == [k \in 1..(Len(s) - 1) |-> IF k <= i THEN s[k] ELSE s[k + 1]]

InsertAt(s, i, x) ==
    [k \in 1..(Len(s) + 1) |-> IF k <= i THEN s[k] ELSE IF k = i + 1 THEN x ELSE s[k - 1]]

ReplaceAt(s, i, x) == [s EXCEPT ![i + 1] = x]

SetMax(S) == CHOOSE m \in S : \A n \in S : n <= m

Max2(a, b) == IF a >= b THEN a ELSE b

\* ------------------------------------------------------------ data model
NoLayout == [e \in {} |-> 0]

defaultPositions ==
    [e \in {"photo", "category", "date", "name", "title", "description"} |->
        CASE e = "photo" -> [x |-> 100, y |-> 200, width |-> 400, height |-> 400]
          [] e = "category" -> [x |-> 550, y |-> 60, width |-> 200, height |-> 80]
          [] e = "date" -> [x |-> 780, y |-> 70, width |-> 200, height |-> 30]
          [] e = "name" -> [x |-> 550, y |-> 160, width |-> 800, height |-> 80]
          [] e = "title" -> [x |-> 550, y |-> 260, width |-> 800, height |-> 50]
          [] e = "description" -> [x |-> 550, y |-> 340, width |-> 1200, height |-> 350]]

\* an absent photoPath / organizationLogo / organizationLogoPath
NoPath == ""

\* the stock photo URL of a record without an upload
StockPhoto == "https://images.unsplash.com/photo"

Awardee(id, name) ==
    [id |-> id, name |-> name, tabName |-> "", isHidden |-> FALSE,
     layout |-> NoLayout, order |-> NoOrder,
     photo |-> StockPhoto, photoPath |-> NoPath,
     organizationLogo |-> NoPath, organizationLogoPath |-> NoPath]

defaultAwardees ==
    << Awardee(1, "Iyanuoluwa Olutunmbi"), Awardee(2, "Michael Chen"),
       Awardee(3, "Emily Rodriguez"), Awardee(4, "David Park") >>

\* --------------------------------------------------------- key-value store
\* The store maps the id of key awardee:{id} to the stored JSON record.
EmptyStore == [i \in {} |-> Awardee(0, "")]

StoreOf(s) == [i \in Ids(s) |-> CHOOSE r \in {s[k] : k \in 1..Len(s)} : r.id = i]

kvSet(store, rec) == [i \in (DOMAIN store) \cup {rec.id} |-> IF i = rec.id THEN rec ELSE store[i]]

kvMset(store, recs) ==
    [i \in (DOMAIN store) \cup Ids(recs) |->
        IF i \in Ids(recs)
        THEN LET last == SetMax({k \in 1..Len(recs) : recs[k].id = i}) IN recs[last]
        ELSE store[i]]

kvDel(store, id) == [i \in (DOMAIN store) \ {id} |-> store[i]]

kvGetByPrefix(store) == {store[i] : i \in DOMAIN store}

RECURSIVE Perms(_)
Perms(S) ==
    IF S = {} THEN {<<>>}
    ELSE UNION {{<<x>> \o p : p \in Perms(S \ {x})} : x \in S}

\* comparator of GET /awardees
sortCompare(a, b) ==
    IF a.order # NoOrder /\ b.order # NoOrder THEN a.order - b.order ELSE a.id - b.id

\* the sequences Array.prototype.sort may return for the scanned records
sortedAwardees(store) ==
    LET all == Perms(kvGetByPrefix(store))
        ok == {p \in all : \A i \in 1..Len(p) : \A j \in (i + 1)..Len(p) :
                               sortCompare(p[i], p[j]) <= 0}
    IN  IF ok # {} THEN ok ELSE all

\* ------------------------------------------------------------ HTTP routes
\* object names in the bucket
Paths == {"a.png", "b.png"}

\* the URL createSignedUrl answers for a stored object
SignedUrl(path) == IF path = "a.png" THEN "https://signed/a.png" ELSE "https://signed/b.png"

\* what can go wrong inside a route: a kv call throws, the storage call
\* returns {error} (supabase-js does not throw), or the storage call throws
GetFails == {"none", "kvScan", "signError", "signThrows"}
DeleteFails == {"none", "kvGet", "removeError", "removeThrows", "kvDel"}
PostFails == {"none", "kvSet"}

\* photo: data?.signedUrl || awardee.photo
withSignedUrl(a, stor, fail) ==
    IF a.photoPath # NoPath
    THEN [a EXCEPT !.photo = IF fail = "none" /\ a.photoPath \in stor
                             THEN SignedUrl(a.photoPath) ELSE @]
    ELSE a

\* GET /awardees: the answers the route may give
getAwardeesRoute(store, stor, fail) ==
    IF fail = "kvScan" \/ (fail = "signThrows" /\ \E i \in DOMAIN store : store[i].photoPath # NoPath)
    THEN {[status |-> 500, awardees |-> <<>>]}
    ELSE {[status |-> 200,
           awardees |-> [k \in 1..Len(p) |-> withSignedUrl(p[k], stor, fail)]] :
          p \in sortedAwardees(store)}

\* POST /awardees
postAwardeeRoute(store, rec, fail) ==
    IF fail = "kvSet" THEN [kv |-> store, status |-> 500]
    ELSE [kv |-> kvSet(store, rec), status |-> 200]

deleteAwardeeRouteKeepsObject(store, stor, id, fail) ==
    IF fail = "kvGet" THEN [kv |-> store, storage |-> stor, status |-> 500]
    ELSE [kv |-> kvDel(store, id), storage |-> stor, status |-> 200]

\* DELETE /awardees/:id
deleteAwardeeRoute(store, stor, id, fail) ==
    LET hasPhoto == id \in DOMAIN store /\ store[id].photoPath # NoPath
        removed == IF hasPhoto /\ fail \notin {"removeError", "removeThrows"}
                   THEN stor \ {store[id].photoPath} ELSE stor
    IN  IF fail = "kvGet" \/ (fail = "removeThrows" /\ hasPhoto)
        THEN [kv |-> store, storage |-> stor, status |-> 500]
        ELSE IF fail = "kvDel"
        THEN [kv |-> store, storage |-> removed, status |-> 500]
        ELSE [kv |-> kvDel(store, id), storage |-> removed, status |-> 200]

\* `${timestamp}-${file.name}`: a name no stored object has yet
NextName(stor) == IF "a.png" \notin stor THEN "a.png" ELSE "b.png"

UploadFails == {"none", "uploadError", "signError", "throws"}

\* POST /upload-photo storing the file under the generated name
uploadPhotoRoute(stor, name, fail) ==
    IF fail = "throws" \/ fail = "uploadError" \/ name \in stor
    THEN [storage |-> stor, status |-> 500, success |-> FALSE,
          photoPath |-> NoPath, photoUrl |-> NoPath]
    ELSE [storage |-> stor \cup {name}, status |-> 200, success |-> TRUE,
          photoPath |-> name,
          photoUrl |-> IF fail = "signError" THEN NoPath ELSE SignedUrl(name)]

\* a store a session finds at start: two records saved earlier in the
\* sequence (id 2, id 1)
SeedStores ==
    { StoreOf(<< [Awardee(2, "Michael Chen") EXCEPT !.order = 0],
                 [Awardee(1, "Iyanuoluwa Olutunmbi") EXCEPT !.order = 1] >>) }

\* ----------------------------------------------------------------- state
VARIABLES
    awardees, currentSlide, isEditorOpen, loading, isPreviewMode,
    appLayoutEditMode, layoutEditSlideIndex, layoutUpdateHandler,
    editingAwardees, activeTab, deleteConfirmIndex, draggedIndex,
    copyLayoutToAll, initializedSlides, isSaving, isSaved, saveSuccess,
    savePc, saveClosure, saveOwnerMounted, existingAwardees, inflightDeletes,
    deletesIssued, batchPayload, saveReqFailed, saveResult,
    kv, storage, resp, crashed, op, everIds, editCount,
    applyLogoToAll, uploading, uploadPc, uploadClosure, uploadOwnerMounted,
    peer, lastSaver

appVars == <<awardees, currentSlide, isEditorOpen, loading, isPreviewMode,
             appLayoutEditMode, layoutEditSlideIndex, layoutUpdateHandler>>

edVars == <<editingAwardees, activeTab, deleteConfirmIndex, draggedIndex,
            copyLayoutToAll, initializedSlides, isSaving, isSaved, saveSuccess>>

saveVars == <<savePc, saveClosure, saveOwnerMounted, existingAwardees, inflightDeletes,
              deletesIssued, batchPayload, saveReqFailed, saveResult>>

\* the private bucket of the server and the last HTTP answer of a route
srvVars == <<storage, resp>>

\* the logo toggle, the busy flag and the upload in flight
upVars == <<applyLogoToAll, uploading, uploadPc, uploadClosure, uploadOwnerMounted>>

NoUpload == [kind |-> "none", index |-> 0, ea |-> <<>>, applyAll |-> FALSE, cs |-> 0]

\* the save of a second editor session (another browser tab) against the
\* same backend, and the session whose save completed last
tabVars == <<peer, lastSaver>>

NoPeer == [pc |-> "idle", ea |-> <<>>, inflight |-> {}]

vars == <<appVars, edVars, saveVars, kv, srvVars, upVars, tabVars, crashed, op, everIds,
          editCount>>

NoResponse == [status |-> 0, awardees |-> <<>>, fault |-> "none"]

NoHandler == [set |-> FALSE, ea |-> <<>>, tab |-> 0, copy |-> FALSE, cs |-> 0]

Op(name, i, j) == [name |-> name, i |-> i, j |-> j]

\* the state of the browser application after construction
ClientInit ==
    /\ awardees = defaultAwardees
    /\ currentSlide = 0
    /\ isEditorOpen = FALSE
    /\ loading = TRUE
    /\ isPreviewMode = FALSE
    /\ appLayoutEditMode = FALSE
    /\ layoutEditSlideIndex = 0
    /\ layoutUpdateHandler = NoHandler
    /\ editingAwardees = <<>>
    /\ activeTab = 0
    /\ deleteConfirmIndex = NoIndex
    /\ draggedIndex = NoIndex
    /\ copyLayoutToAll = FALSE
    /\ initializedSlides = {}
    /\ isSaving = FALSE
    /\ isSaved = FALSE
    /\ saveSuccess = FALSE
    /\ savePc = "idle"
    /\ saveClosure = [ea |-> <<>>, cs |-> 0]
    /\ saveOwnerMounted = FALSE
    /\ existingAwardees = <<>>
    /\ inflightDeletes = {}
    /\ deletesIssued = {}
    /\ batchPayload = <<>>
    /\ saveReqFailed = FALSE
    /\ saveResult = "none"
    /\ crashed = FALSE
    /\ op = Op("init", NoIndex, NoIndex)
    /\ everIds = {}
    /\ editCount = 0
    /\ applyLogoToAll = FALSE
    /\ uploading = FALSE
    /\ uploadPc = "idle"
    /\ uploadClosure = NoUpload
    /\ uploadOwnerMounted = FALSE
    /\ peer = NoPeer
    /\ lastSaver = "none"

Init ==
    /\ ClientInit
    /\ kv \in SeedStores
    /\ storage = {}
    /\ resp = NoResponse

\* -------------------------------------------------- requests to the server
\* a request sent straight to a route; resp is the answer, together with
\* the fault that occurred inside the route
GetAwardees(fail) ==
    /\ \E r \in getAwardeesRoute(kv, storage, fail) :
          resp' = [status |-> r.status, awardees |-> r.awardees, fault |-> fail]
    /\ op' = Op("GET /awardees", NoIndex, NoIndex)
    /\ UNCHANGED <<appVars, edVars, saveVars, kv, storage, upVars, crashed, everIds, editCount>>
    /\ UNCHANGED tabVars

PostAwardee(rec, fail) ==
    /\ kv' = postAwardeeRoute(kv, rec, fail).kv
    /\ resp' = [status |-> postAwardeeRoute(kv, rec, fail).status, awardees |-> <<rec>>,
                fault |-> fail]
    /\ op' = Op("POST /awardees", rec.id, NoIndex)
    /\ UNCHANGED <<appVars, edVars, saveVars, storage, upVars, crashed, everIds, editCount>>
    /\ UNCHANGED tabVars

DeleteAwardee(id, fail) ==
    /\ kv' = deleteAwardeeRoute(kv, storage, id, fail).kv
    /\ storage' = deleteAwardeeRoute(kv, storage, id, fail).storage
    /\ resp' = [status |-> deleteAwardeeRoute(kv, storage, id, fail).status, awardees |-> <<>>,
                fault |-> fail]
    /\ op' = Op("DELETE /awardees/:id", id,
                Cardinality(storage \ deleteAwardeeRoute(kv, storage, id, fail).storage))
    /\ UNCHANGED <<appVars, edVars, saveVars, upVars, crashed, everIds, editCount>>
    /\ UNCHANGED tabVars

\* ----------------------------------------------------------- App: render
RECURSIVE SelectSeqVisible(_)
SelectSeqVisible(s) ==
    IF s = <<>> THEN <<>>
    ELSE IF s[1].isHidden THEN SelectSeqVisible(Tail(s))
    ELSE <<s[1]>> \o SelectSeqVisible(Tail(s))

\* isPreviewMode ? awardees.filter(a => !a.isHidden) : awardees
visibleAwardees(aw, preview) == IF preview THEN SelectSeqVisible(aw) ELSE aw

\* the App renders <AwardCard awardee={visibleAwardees[currentSlide]}>: an
\* undefined record there throws in AwardCard and unmounts the application
RenderThrows(aw, cs, preview) == cs < 0 \/ cs >= Len(visibleAwardees(aw, preview))

\* ------------------------------------------------------------ App: loading
\* loadAwardees: keep the first occurrence of every id
uniqueAwardees(data) ==
    LET acc[k \in 0..Len(data)] ==
            IF k = 0 THEN <<>>
            ELSE IF \E n \in 1..Len(acc[k - 1]) : acc[k - 1][n].id = data[k].id
                 THEN acc[k - 1]
                 ELSE Append(acc[k - 1], data[k])
    IN  acc[Len(data)]

\* initializeDefaultData: one POST /awardees per default record; written is
\* the set of ids whose POST stored its record
initializeDefaultData(store, written) ==
    [i \in (DOMAIN store) \cup written |->
        IF i \in written
        THEN CHOOSE r \in {defaultAwardees[k] : k \in 1..Len(defaultAwardees)} : r.id = i
        ELSE store[i]]

PostOutcomes == {Ids(defaultAwardees), {}}

LoadAwardees(outcomes) ==
    /\ loading /\ ~crashed
    /\ \E outcome \in outcomes :
         /\ op' = Op("loadAwardees", NoIndex, NoIndex)
         /\ CASE outcome = "ok" ->
                   \E data \in {r.awardees : r \in getAwardeesRoute(kv, storage, "none")} :
                      IF Len(data) > 0
                      THEN awardees' = uniqueAwardees(data) /\ kv' = kv
                      ELSE \E written \in PostOutcomes :
                              /\ kv' = initializeDefaultData(kv, written)
                              /\ awardees' = defaultAwardees
              [] outcome = "http500" ->
                   \E written \in PostOutcomes :
                      /\ kv' = initializeDefaultData(kv, written)
                      /\ awardees' = defaultAwardees
              [] outcome = "neterr" ->
                   awardees' = defaultAwardees /\ kv' = kv
    /\ loading' = FALSE
    /\ crashed' = RenderThrows(awardees', currentSlide, isPreviewMode)
    /\ UNCHANGED <<srvVars, upVars>>
    /\ UNCHANGED <<currentSlide, isEditorOpen, isPreviewMode, appLayoutEditMode,
                   layoutEditSlideIndex, layoutUpdateHandler, edVars, saveVars,
                   everIds, editCount>>
    /\ UNCHANGED tabVars

\* ------------------------------------------- EditorPanel: effects pipeline
needsInitializationAlways(a) == TRUE

\* !currentAwardee.layout || Object.keys(currentAwardee.layout).length === 0
needsInitialization(a) == a.layout = NoLayout \/ DOMAIN a.layout = {}

\* handleUpdate of the App: clamp currentSlide into the new collection
handleUpdateSlide(cs, updated) ==
    IF cs >= Len(updated) THEN Max2(0, Len(updated) - 1) ELSE cs

\* The effects that run after a handler has set the working copy to ea1 and
\* the active tab to tab1:
\*   sync effect [awardees]          clears initializedSlidesRef
\*   onLayoutModeChange effect       [activeTab, isLayoutEditMode]
\*   layout initialization effect    [isLayoutEditMode, activeTab]
\* awCh: the App's awardees changed; tabCh: activeTab changed (or mount);
\* cs1: currentSlide after the handler. The App renders awardees[currentSlide]
\* and the layout effect reads editingAwardees[activeTab]: an undefined record
\* there throws and unmounts the application (crash). The result is the
\* settled state.
Settle(ea1, tab1, awCh, tabCh, ini0, h0, copy1, cs1, saved1) ==
    LET ini1 == IF awCh THEN {} ELSE ini0
        h1 == IF tabCh THEN [set |-> TRUE, ea |-> ea1, tab |-> tab1, copy |-> copy1, cs |-> cs1]
              ELSE h0
        runInit == tabCh /\ tab1 \notin ini1
        oob == tab1 >= Len(ea1)
        seed == ~oob /\ needsInitialization(At(ea1, tab1))
        seeded == ReplaceAt(ea1, tab1, [At(ea1, tab1) EXCEPT !.layout = defaultPositions])
    IN  IF (awCh /\ RenderThrows(ea1, cs1, isPreviewMode)) \/ (runInit /\ oob)
        THEN [crash |-> TRUE, ea |-> ea1, tab |-> tab1, ini |-> ini1, h |-> h1,
              cs |-> cs1, saved |-> saved1, awCh |-> awCh]
        ELSE IF runInit /\ seed
        THEN [crash |-> FALSE, ea |-> seeded, tab |-> tab1, ini |-> {}, h |-> h1,
              cs |-> IF cs1 >= Len(seeded) THEN Max2(0, Len(seeded) - 1) ELSE tab1,
              saved |-> FALSE, awCh |-> TRUE]
        ELSE [crash |-> FALSE, ea |-> ea1, tab |-> tab1,
              ini |-> IF runInit THEN ini1 \cup {tab1} ELSE ini1, h |-> h1,
              cs |-> IF tabCh THEN tab1 ELSE cs1, saved |-> saved1, awCh |-> awCh]

\* commit a settled state r of the mounted editor
Commit(r) ==
    /\ crashed' = (r.crash \/ (isPreviewMode /\ RenderThrows(IF r.awCh THEN r.ea ELSE awardees, r.cs, TRUE)))
    /\ editingAwardees' = r.ea
    /\ awardees' = IF r.awCh THEN r.ea ELSE awardees
    /\ activeTab' = r.tab
    /\ initializedSlides' = r.ini
    /\ layoutUpdateHandler' = r.h
    /\ appLayoutEditMode' = (r.h.set \/ appLayoutEditMode)
    /\ layoutEditSlideIndex' = IF r.h.set THEN r.h.tab ELSE layoutEditSlideIndex
    /\ currentSlide' = r.cs
    /\ isSaved' = r.saved
    /\ everIds' = everIds \cup Ids(r.ea)

\* updateAwardees(updated) followed by setActiveTab(tab1), then the effects
UpdateAwardees(updated, tab1) ==
    Commit(Settle(updated, tab1, TRUE, tab1 # activeTab, initializedSlides,
                  layoutUpdateHandler, copyLayoutToAll,
                  handleUpdateSlide(currentSlide, updated), FALSE))

\* ------------------------------------------------ App: open / close editor
OpenEditor ==
    /\ ~loading /\ ~crashed /\ ~isEditorOpen
    /\ isEditorOpen' = TRUE
    /\ op' = Op("openEditor", NoIndex, NoIndex)
    /\ Commit(Settle(awardees, 0, FALSE, TRUE, {}, layoutUpdateHandler, FALSE,
                     currentSlide, FALSE))
    /\ deleteConfirmIndex' = NoIndex
    /\ draggedIndex' = NoIndex
    /\ copyLayoutToAll' = FALSE
    /\ isSaving' = FALSE
    /\ saveSuccess' = FALSE
    /\ applyLogoToAll' = FALSE
    /\ uploading' = FALSE
    /\ UNCHANGED <<loading, isPreviewMode, saveVars, kv, srvVars, uploadPc, uploadClosure,
                   uploadOwnerMounted, editCount>>
    /\ UNCHANGED tabVars

CloseEditor ==
    /\ isEditorOpen /\ ~crashed
    /\ isEditorOpen' = FALSE
    /\ op' = Op("onClose", NoIndex, NoIndex)
    /\ editingAwardees' = <<>>
    /\ activeTab' = 0
    /\ deleteConfirmIndex' = NoIndex
    /\ draggedIndex' = NoIndex
    /\ copyLayoutToAll' = FALSE
    /\ initializedSlides' = {}
    /\ isSaving' = FALSE
    /\ isSaved' = FALSE
    /\ saveSuccess' = FALSE
    /\ saveOwnerMounted' = FALSE
    /\ applyLogoToAll' = FALSE
    /\ uploading' = FALSE
    /\ uploadOwnerMounted' = FALSE
    /\ UNCHANGED <<awardees, currentSlide, loading, isPreviewMode, appLayoutEditMode,
                   layoutEditSlideIndex, layoutUpdateHandler, savePc, saveClosure,
                   existingAwardees, inflightDeletes, deletesIssued, batchPayload,
                   saveReqFailed, saveResult, kv, srvVars, uploadPc, uploadClosure,
                   crashed, everIds, editCount>>
    /\ UNCHANGED tabVars

\* ------------------------------------------------------ App: navigation
\* (prev + 1) % n and (prev - 1 + n) % n of JavaScript; with n = 0 the result
\* is NaN, written NoIndex
nextSlide(prev, n) == IF n = 0 THEN NoIndex ELSE (prev + 1) % n

prevSlide(prev, n) ==
    IF n = 0 THEN NoIndex
    ELSE IF prev - 1 + n >= 0 THEN (prev - 1 + n) % n
    ELSE 0 - ((0 - (prev - 1 + n)) % n)

\* setCurrentSlide(cs1) on the App, then its render
GoToSlide(cs1) ==
    /\ currentSlide' = cs1
    /\ crashed' = RenderThrows(awardees, cs1, isPreviewMode)
    /\ UNCHANGED <<awardees, isEditorOpen, loading, isPreviewMode, appLayoutEditMode,
                   layoutEditSlideIndex, layoutUpdateHandler, edVars, saveVars, kv, srvVars, upVars,
                   everIds, editCount>>

NavKeys == {"ArrowLeft", "ArrowRight", "Escape"}

\* the keydown listener of the App; it is registered again whenever
\* isEditorOpen, isPreviewMode, currentSlide or awardees.length change
handleKeyDown(key) ==
    /\ ~crashed /\ ~loading
    /\ ~isEditorOpen
    /\ op' = Op(key, currentSlide, NoIndex)
    /\ LET n == Len(visibleAwardees(awardees, isPreviewMode))
       IN  CASE key = "ArrowRight" -> GoToSlide(nextSlide(currentSlide, n))
             [] key = "ArrowLeft" -> GoToSlide(prevSlide(currentSlide, n))
             [] key = "Escape" ->
                  /\ isPreviewMode' = FALSE
                  /\ crashed' = (isPreviewMode /\ RenderThrows(awardees, currentSlide, FALSE))
                  /\ UNCHANGED <<awardees, currentSlide, isEditorOpen, loading,
                                 appLayoutEditMode, layoutEditSlideIndex,
                                 layoutUpdateHandler, edVars, saveVars, kv, srvVars, upVars, everIds,
                                 editCount>>
    /\ UNCHANGED tabVars

\* the Preview button of the header
EnterPreview ==
    /\ ~crashed /\ ~loading
    /\ ~isPreviewMode
    /\ isPreviewMode' = TRUE
    /\ crashed' = RenderThrows(awardees, currentSlide, TRUE)
    /\ op' = Op("enterPreview", currentSlide, NoIndex)
    /\ UNCHANGED <<awardees, currentSlide, isEditorOpen, loading, appLayoutEditMode,
                   layoutEditSlideIndex, layoutUpdateHandler, edVars, saveVars, kv, srvVars, upVars,
                   everIds, editCount>>
    /\ UNCHANGED tabVars

\* the chevron buttons of the edit-mode canvas
clickPrevSlide ==
    /\ ~crashed /\ ~loading
    /\ ~isPreviewMode /\ currentSlide > 0
    /\ op' = Op("clickPrevSlide", currentSlide, NoIndex)
    /\ GoToSlide(prevSlide(currentSlide, Len(awardees)))
    /\ UNCHANGED tabVars

clickNextSlide ==
    /\ ~crashed /\ ~loading
    /\ ~isPreviewMode /\ currentSlide < Len(awardees) - 1
    /\ op' = Op("clickNextSlide", currentSlide, NoIndex)
    /\ GoToSlide(nextSlide(currentSlide, Len(awardees)))
    /\ UNCHANGED tabVars

\* the slide indicator dots
clickIndicator(index) ==
    /\ ~crashed /\ ~loading
    /\ isPreviewMode \/ ~appLayoutEditMode
    /\ index \in 0..(Len(visibleAwardees(awardees, isPreviewMode)) - 1)
    /\ op' = Op("clickIndicator", index, NoIndex)
    /\ GoToSlide(index)
    /\ UNCHANGED tabVars

\* -------------------------------------------------- EditorPanel: handlers
\* the panel's controls respond when no drag is in progress and the delete
\* confirmation modal does not cover the panel
PanelIdle ==
    /\ isEditorOpen /\ ~crashed
    /\ draggedIndex = NoIndex
    /\ deleteConfirmIndex = NoIndex

TabIndices == 0..(Len(editingAwardees) - 1)

NameInputs == {"Edited Name"}
TabNameInputs == {"Finalist"}

SetActiveTab(index) ==
    /\ PanelIdle
    /\ index \in TabIndices /\ index # activeTab
    /\ op' = Op("setActiveTab", index, NoIndex)
    /\ Commit(Settle(editingAwardees, index, FALSE, TRUE, initializedSlides,
                     layoutUpdateHandler, copyLayoutToAll, currentSlide, isSaved))
    /\ UNCHANGED <<isEditorOpen, loading, isPreviewMode, deleteConfirmIndex, draggedIndex, copyLayoutToAll,
                   isSaving, saveSuccess, saveVars, kv, srvVars, upVars, editCount>>
    /\ UNCHANGED tabVars

handleDragStart(index) ==
    /\ PanelIdle
    /\ index \in TabIndices
    /\ draggedIndex' = index
    /\ op' = Op("handleDragStart", index, NoIndex)
    /\ UNCHANGED <<appVars, editingAwardees, activeTab, deleteConfirmIndex, copyLayoutToAll,
                   initializedSlides, isSaving, isSaved, saveSuccess, saveVars, kv, srvVars, upVars,
                   crashed, everIds, editCount>>
    /\ UNCHANGED tabVars

handleDragEnd ==
    /\ isEditorOpen /\ ~crashed
    /\ draggedIndex # NoIndex
    /\ draggedIndex' = NoIndex
    /\ op' = Op("handleDragEnd", NoIndex, NoIndex)
    /\ UNCHANGED <<appVars, editingAwardees, activeTab, deleteConfirmIndex, copyLayoutToAll,
                   initializedSlides, isSaving, isSaved, saveSuccess, saveVars, kv, srvVars, upVars,
                   crashed, everIds, editCount>>
    /\ UNCHANGED tabVars

\* a reorder that corrects the drop position for the removed element
dropAwardeesShifted(ea, dragged, dropIndex) ==
    InsertAt(RemoveAt(ea, dragged),
             IF dragged < dropIndex THEN dropIndex - 1 ELSE dropIndex, At(ea, dragged))

\* splice(draggedIndex, 1) then splice(dropIndex, 0, draggedItem)
dropAwardees(ea, dragged, dropIndex) ==
    InsertAt(RemoveAt(ea, dragged), dropIndex, At(ea, dragged))

\* an adjustment that misses a drop landing exactly on the active tab
dropActiveTabStrict(tab, dragged, dropIndex) ==
    IF tab = dragged THEN dropIndex
    ELSE IF dragged < tab /\ dropIndex > tab THEN tab - 1
    ELSE IF dragged > tab /\ dropIndex < tab THEN tab + 1
    ELSE tab

dropActiveTab(tab, dragged, dropIndex) ==
    IF tab = dragged THEN dropIndex
    ELSE IF dragged < tab /\ dropIndex >= tab THEN tab - 1
    ELSE IF dragged > tab /\ dropIndex <= tab THEN tab + 1
    ELSE tab

handleDrop(dropIndex) ==
    /\ isEditorOpen /\ ~crashed
    /\ draggedIndex # NoIndex
    /\ dropIndex \in TabIndices
    /\ op' = Op("handleDrop", draggedIndex, dropIndex)
    /\ draggedIndex' = NoIndex
    /\ IF draggedIndex = dropIndex
       THEN UNCHANGED <<appVars, editingAwardees, activeTab, initializedSlides, isSaved,
                        crashed, everIds, editCount>>
       ELSE IF draggedIndex >= Len(editingAwardees)
       THEN \* draggedItem is undefined and is spliced into the list: the
            \* next render of the tabs reads a field of undefined
            /\ crashed' = TRUE
            /\ UNCHANGED <<appVars, editingAwardees, activeTab, initializedSlides, isSaved,
                           everIds, editCount>>
       ELSE /\ UpdateAwardees(dropAwardees(editingAwardees, draggedIndex, dropIndex),
                              dropActiveTab(activeTab, draggedIndex, dropIndex))
            /\ UNCHANGED <<isEditorOpen, loading, isPreviewMode, editCount>>
    /\ UNCHANGED <<deleteConfirmIndex, copyLayoutToAll, isSaving, saveSuccess, saveVars, kv, srvVars, upVars>>
    /\ UNCHANGED tabVars

handleFieldChange(value) ==
    /\ PanelIdle
    /\ editCount < MaxEdits
    /\ editCount' = editCount + 1
    /\ activeTab \in TabIndices
    /\ op' = Op("handleFieldChange", activeTab, NoIndex)
    /\ UpdateAwardees(ReplaceAt(editingAwardees, activeTab,
                                [At(editingAwardees, activeTab) EXCEPT !.name = value]),
                      activeTab)
    /\ UNCHANGED <<isEditorOpen, loading, isPreviewMode, deleteConfirmIndex, draggedIndex, copyLayoutToAll,
                   isSaving, saveSuccess, saveVars, kv, srvVars, upVars>>
    /\ UNCHANGED tabVars

\* Math.max(...ids) + 1, without the floor of 0
newIdWithoutFloor(ea) == IF ea = <<>> THEN 0 ELSE SetMax(Ids(ea)) + 1

\* an id taken from the length of the collection
newIdFromLength(ea) == Len(ea) + 1

\* Math.max(...ids, 0) + 1
newId(ea) == SetMax(Ids(ea) \cup {0}) + 1

handleAddAwardee ==
    /\ PanelIdle
    /\ Len(editingAwardees) < MaxLen
    /\ newId(editingAwardees) <= MaxId
    /\ op' = Op("handleAddAwardee", newId(editingAwardees), NoIndex)
    /\ UpdateAwardees(Append(editingAwardees, Awardee(newId(editingAwardees), "New Awardee")),
                      Len(editingAwardees))
    /\ UNCHANGED <<isEditorOpen, loading, isPreviewMode, deleteConfirmIndex, draggedIndex, copyLayoutToAll,
                   isSaving, saveSuccess, saveVars, kv, srvVars, upVars, editCount>>
    /\ UNCHANGED tabVars

copyTabName(t) == IF t # "" THEN t \o " (Copy)" ELSE ""

duplicateAwardeesAtEnd(ea, index) ==
    Append(ea, [At(ea, index) EXCEPT !.id = newId(ea), !.tabName = copyTabName(@)])

duplicateAwardees(ea, index) ==
    InsertAt(ea, index + 1,
             [At(ea, index) EXCEPT !.id = newId(ea), !.tabName = copyTabName(@)])

handleDuplicate(index) ==
    /\ PanelIdle
    /\ index \in TabIndices
    /\ Len(editingAwardees) < MaxLen
    /\ newId(editingAwardees) <= MaxId
    /\ op' = Op("handleDuplicate", newId(editingAwardees), index)
    /\ UpdateAwardees(duplicateAwardees(editingAwardees, index), index + 1)
    /\ UNCHANGED <<isEditorOpen, loading, isPreviewMode, deleteConfirmIndex, draggedIndex, copyLayoutToAll,
                   isSaving, saveSuccess, saveVars, kv, srvVars, upVars, editCount>>
    /\ UNCHANGED tabVars

handleToggleHide(index) ==
    /\ PanelIdle
    /\ editCount < MaxEdits
    /\ editCount' = editCount + 1
    /\ index \in TabIndices
    /\ op' = Op("handleToggleHide", index, NoIndex)
    /\ UpdateAwardees(ReplaceAt(editingAwardees, index,
                                [At(editingAwardees, index) EXCEPT !.isHidden = ~@]),
                      activeTab)
    /\ UNCHANGED <<isEditorOpen, loading, isPreviewMode, deleteConfirmIndex, draggedIndex, copyLayoutToAll,
                   isSaving, saveSuccess, saveVars, kv, srvVars, upVars>>
    /\ UNCHANGED tabVars

\* handleRename(index) followed by confirmRename with a non-blank value
confirmRename(index, value) ==
    /\ PanelIdle
    /\ editCount < MaxEdits
    /\ editCount' = editCount + 1
    /\ index \in TabIndices
    /\ op' = Op("confirmRename", index, NoIndex)
    /\ UpdateAwardees(ReplaceAt(editingAwardees, index,
                                [At(editingAwardees, index) EXCEPT !.tabName = value]),
                      activeTab)
    /\ UNCHANGED <<isEditorOpen, loading, isPreviewMode, deleteConfirmIndex, draggedIndex, copyLayoutToAll,
                   isSaving, saveSuccess, saveVars, kv, srvVars, upVars>>
    /\ UNCHANGED tabVars

\* "Delete This Awardee" is rendered for the active record when more than
\* one record exists; the tab context menu offers Delete for every tab
handleDeleteAwardee(index) ==
    /\ PanelIdle
    /\ index \in TabIndices
    /\ deleteConfirmIndex' = index
    /\ op' = Op("handleDeleteAwardee", index, NoIndex)
    /\ UNCHANGED <<appVars, editingAwardees, activeTab, draggedIndex, copyLayoutToAll,
                   initializedSlides, isSaving, isSaved, saveSuccess, saveVars, kv, srvVars, upVars,
                   crashed, everIds, editCount>>
    /\ UNCHANGED tabVars

filterOut(ea, index) ==
    IF index \in 0..(Len(ea) - 1) THEN RemoveAt(ea, index) ELSE ea

confirmDeleteTab(tab, updated) ==
    IF tab >= Len(updated) THEN Max2(0, Len(updated) - 1) ELSE tab

confirmDelete ==
    /\ isEditorOpen /\ ~crashed
    /\ deleteConfirmIndex # NoIndex
    /\ op' = Op("confirmDelete", deleteConfirmIndex, NoIndex)
    /\ LET updated == filterOut(editingAwardees, deleteConfirmIndex)
       IN  UpdateAwardees(updated, confirmDeleteTab(activeTab, updated))
    /\ deleteConfirmIndex' = NoIndex
    /\ UNCHANGED <<isEditorOpen, loading, isPreviewMode, draggedIndex, copyLayoutToAll,
                   isSaving, saveSuccess, saveVars, kv, srvVars, upVars, editCount>>
    /\ UNCHANGED tabVars

\* confirmDelete called while deleteConfirmIndex is null: the if is skipped
confirmDeleteNoPending ==
    /\ isEditorOpen /\ ~crashed
    /\ deleteConfirmIndex = NoIndex
    /\ op' = Op("confirmDelete", NoIndex, NoIndex)
    /\ UNCHANGED <<appVars, edVars, saveVars, kv, srvVars, upVars, crashed, everIds, editCount>>
    /\ UNCHANGED tabVars

cancelDeleteSelectsFirst ==
    /\ isEditorOpen /\ ~crashed
    /\ deleteConfirmIndex # NoIndex
    /\ deleteConfirmIndex' = NoIndex
    /\ activeTab' = 0
    /\ op' = Op("cancelDelete", NoIndex, NoIndex)
    /\ UNCHANGED <<appVars, editingAwardees, draggedIndex, copyLayoutToAll,
                   initializedSlides, isSaving, isSaved, saveSuccess, saveVars, kv, srvVars, upVars,
                   crashed, everIds, editCount>>
    /\ UNCHANGED tabVars

cancelDelete ==
    /\ isEditorOpen /\ ~crashed
    /\ deleteConfirmIndex # NoIndex
    /\ deleteConfirmIndex' = NoIndex
    /\ op' = Op("cancelDelete", NoIndex, NoIndex)
    /\ UNCHANGED <<appVars, editingAwardees, activeTab, draggedIndex, copyLayoutToAll,
                   initializedSlides, isSaving, isSaved, saveSuccess, saveVars, kv, srvVars, upVars,
                   crashed, everIds, editCount>>
    /\ UNCHANGED tabVars

\* ----------------------------------------------------- EditorPanel: uploads
copyLogoAwardees(ea) ==
    [k \in 1..Len(ea) |-> [ea[k] EXCEPT !.organizationLogo = ea[1].organizationLogo,
                                         !.organizationLogoPath = ea[1].organizationLogoPath]]

handleApplyLogoToAllChange ==
    /\ PanelIdle
    /\ activeTab \in TabIndices
    /\ applyLogoToAll' = ~applyLogoToAll
    /\ op' = Op("handleApplyLogoToAllChange", NoIndex, NoIndex)
    /\ IF ~applyLogoToAll /\ Len(editingAwardees) > 0
       THEN /\ UpdateAwardees(copyLogoAwardees(editingAwardees), activeTab)
            /\ UNCHANGED <<isEditorOpen, loading, isPreviewMode, editCount>>
       ELSE UNCHANGED <<appVars, editingAwardees, activeTab, initializedSlides, isSaved,
                        crashed, everIds, editCount>>
    /\ UNCHANGED <<deleteConfirmIndex, draggedIndex, copyLayoutToAll, isSaving, saveSuccess,
                   saveVars, kv, srvVars, uploading, uploadPc, uploadClosure,
                   uploadOwnerMounted>>
    /\ UNCHANGED tabVars

\* the part of an upload handler before its first await; the rest of the
\* handler runs over the values of this render
StartUpload(kind) ==
    /\ uploading' = TRUE
    /\ uploadPc' = "inflight"
    /\ uploadClosure' = [kind |-> kind, index |-> activeTab, ea |-> editingAwardees,
                         applyAll |-> applyLogoToAll, cs |-> currentSlide]
    /\ uploadOwnerMounted' = TRUE
    /\ op' = Op(kind, activeTab, NoIndex)
    /\ UNCHANGED <<appVars, edVars, saveVars, kv, srvVars, applyLogoToAll, crashed, everIds,
                   editCount>>
    /\ UNCHANGED tabVars

handlePhotoUpload ==
    /\ PanelIdle
    /\ activeTab \in TabIndices
    /\ ~uploading /\ uploadPc = "idle"
    /\ Paths \ storage # {}
    /\ StartUpload("handlePhotoUpload")

handleOrganizationLogoUpload ==
    /\ PanelIdle
    /\ activeTab \in TabIndices
    /\ ~uploading /\ uploadPc = "idle"
    /\ ~(applyLogoToAll /\ activeTab # 0)
    /\ Paths \ storage # {}
    /\ StartUpload("handleOrganizationLogoUpload")

\* the working copy an upload handler builds from the values it captured
uploadedAwardees(c, url, path) ==
    IF c.kind = "handlePhotoUpload"
    THEN ReplaceAt(c.ea, c.index, [At(c.ea, c.index) EXCEPT !.photo = url, !.photoPath = path])
    ELSE IF c.applyAll /\ c.index = 0
    THEN [k \in 1..Len(c.ea) |-> [c.ea[k] EXCEPT !.organizationLogo = url,
                                                  !.organizationLogoPath = path]]
    ELSE ReplaceAt(c.ea, c.index, [At(c.ea, c.index) EXCEPT !.organizationLogo = url,
                                                            !.organizationLogoPath = path])

\* the answer of POST /upload-photo arrives (or the fetch rejects) and the
\* handler resumes
uploadAnswered(fail) ==
    /\ uploadPc = "inflight" /\ ~crashed
    /\ op' = Op("uploadAnswered", uploadClosure.index, NoIndex)
    /\ uploadPc' = "idle"
    /\ uploading' = IF uploadOwnerMounted THEN FALSE ELSE uploading
    /\ LET r == uploadPhotoRoute(storage, NextName(storage), fail)
           c == uploadClosure
           updated == uploadedAwardees(c, r.photoUrl, r.photoPath)
           cs1 == IF c.cs >= Len(updated) THEN Max2(0, Len(updated) - 1) ELSE currentSlide
       IN  /\ storage' = r.storage
           /\ IF ~r.success
              THEN UNCHANGED <<appVars, editingAwardees, activeTab, initializedSlides,
                               isSaved, crashed, everIds>>
              ELSE IF isEditorOpen
              THEN /\ Commit(Settle(updated, activeTab, TRUE, FALSE, initializedSlides,
                                    layoutUpdateHandler, copyLayoutToAll, cs1,
                                    IF uploadOwnerMounted THEN FALSE ELSE isSaved))
                   /\ UNCHANGED <<isEditorOpen, loading, isPreviewMode>>
              ELSE /\ awardees' = updated
                   /\ currentSlide' = cs1
                   /\ crashed' = RenderThrows(updated, cs1, isPreviewMode)
                   /\ UNCHANGED <<isEditorOpen, loading, isPreviewMode, appLayoutEditMode,
                                  layoutEditSlideIndex, layoutUpdateHandler,
                                  editingAwardees, activeTab, initializedSlides, isSaved,
                                  everIds>>
    /\ UNCHANGED <<deleteConfirmIndex, draggedIndex, copyLayoutToAll, isSaving, saveSuccess,
                   saveVars, kv, resp, applyLogoToAll, uploadClosure, uploadOwnerMounted,
                   editCount>>
    /\ UNCHANGED tabVars

\* ------------------------------------------------ EditorPanel: layout tools
EditElements == {"photo", "name"}

RectInputs == {[x |-> 40, y |-> 50, width |-> 300, height |-> 300]}

copyLayoutAwardees(ea) ==
    [k \in 1..Len(ea) |-> [ea[k] EXCEPT !.layout = ea[1].layout]]

handleCopyLayoutToAllChange ==
    /\ PanelIdle
    /\ activeTab \in TabIndices
    /\ copyLayoutToAll' = ~copyLayoutToAll
    /\ op' = Op("handleCopyLayoutToAllChange", NoIndex, NoIndex)
    /\ IF ~copyLayoutToAll /\ Len(editingAwardees) > 0
       THEN /\ Commit(Settle(copyLayoutAwardees(editingAwardees), activeTab, TRUE, FALSE,
                             initializedSlides, layoutUpdateHandler, ~copyLayoutToAll,
                             handleUpdateSlide(currentSlide, editingAwardees), FALSE))
            /\ UNCHANGED <<isEditorOpen, loading, isPreviewMode, editCount>>
       ELSE UNCHANGED <<appVars, editingAwardees, activeTab, initializedSlides, isSaved,
                        crashed, everIds, editCount>>
    /\ UNCHANGED <<deleteConfirmIndex, draggedIndex, isSaving, saveSuccess, saveVars, kv, srvVars, upVars>>
    /\ UNCHANGED tabVars

handleResetLayout ==
    /\ PanelIdle
    /\ activeTab \in TabIndices
    /\ op' = Op("handleResetLayout", activeTab, NoIndex)
    /\ UpdateAwardees(ReplaceAt(editingAwardees, activeTab,
                                [At(editingAwardees, activeTab) EXCEPT !.layout = NoLayout]),
                      activeTab)
    /\ UNCHANGED <<isEditorOpen, loading, isPreviewMode, deleteConfirmIndex, draggedIndex, copyLayoutToAll,
                   isSaving, saveSuccess, saveVars, kv, srvVars, upVars, editCount>>
    /\ UNCHANGED tabVars

setElement(layout, elementId, rect) ==
    [e \in (DOMAIN layout) \cup {elementId} |-> IF e = elementId THEN rect ELSE layout[e]]

\* the body of handleLayoutUpdate over the values its closure holds
layoutUpdateAwardees(ea, tab, copy, elementId, rect) ==
    IF copy /\ tab = 0
    THEN [k \in 1..Len(ea) |-> [ea[k] EXCEPT !.layout = setElement(@, elementId, rect)]]
    ELSE ReplaceAt(ea, tab, [At(ea, tab) EXCEPT !.layout = setElement(@, elementId, rect)])

\* A drag stop or resize stop on the slide canvas calls the handler the App
\* stored at the last onLayoutModeChange: the closure of that render.
handleLayoutUpdate(elementId, rect) ==
    /\ ~loading /\ ~crashed /\ ~isPreviewMode
    /\ appLayoutEditMode /\ layoutUpdateHandler.set
    /\ draggedIndex = NoIndex
    /\ op' = Op("handleLayoutUpdate", layoutUpdateHandler.tab, NoIndex)
    /\ LET h == layoutUpdateHandler
           updated == layoutUpdateAwardees(h.ea, h.tab, h.copy, elementId, rect)
           cs1 == handleUpdateSlide(h.cs, updated)
           cs2 == IF h.cs >= Len(updated) THEN cs1 ELSE currentSlide
       IN  IF h.tab >= Len(h.ea)
           THEN \* updated[activeTab] is undefined: the handler throws
                UNCHANGED <<appVars, editingAwardees, activeTab, initializedSlides, isSaved,
                            crashed, everIds, editCount>>
           ELSE IF isEditorOpen
           THEN /\ Commit(Settle(updated, activeTab, TRUE, FALSE, initializedSlides, h,
                                 copyLayoutToAll, cs2, FALSE))
                /\ UNCHANGED <<isEditorOpen, loading, isPreviewMode, editCount>>
           ELSE /\ awardees' = updated
                /\ currentSlide' = cs2
                /\ crashed' = RenderThrows(updated, cs2, isPreviewMode)
                /\ UNCHANGED <<isEditorOpen, loading, isPreviewMode, appLayoutEditMode, layoutEditSlideIndex,
                               layoutUpdateHandler, editingAwardees, activeTab,
                               initializedSlides, isSaved, everIds, editCount>>
    /\ UNCHANGED <<deleteConfirmIndex, draggedIndex, copyLayoutToAll, isSaving, saveSuccess,
                   saveVars, kv, srvVars, upVars>>
    /\ UNCHANGED tabVars

\* ------------------------------------------------------ EditorPanel: save
Outcomes == {"ok", "http500", "neterr"}

awardeesToDeleteKept(existing, ea) ==
    {existing[k].id : k \in 1..Len(existing)} \cap Ids(ea)

\* existingAwardees.filter(a => !currentIds.includes(a.id)), as ids
awardeesToDelete(existing, ea) == {existing[k].id : k \in 1..Len(existing)} \ Ids(ea)

awardeesWithOrderOneBased(ea) == [k \in 1..Len(ea) |-> [ea[k] EXCEPT !.order = k]]

awardeesWithOrder(ea) == [k \in 1..Len(ea) |-> [ea[k] EXCEPT !.order = k - 1]]

afterFetchNoAwait(toDelete) == "batch"

\* await Promise.all(awardeesToDelete.map(...)): the batch request follows
\* only when every DELETE has been answered
afterFetch(toDelete) == IF toDelete = {} THEN "batch" ELSE "deleting"

handleSave ==
    /\ PanelIdle
    /\ ~isSaving /\ ~isSaved
    /\ savePc = "idle" /\ inflightDeletes = {}
    /\ isSaving' = TRUE
    /\ saveSuccess' = FALSE
    /\ savePc' = "fetch"
    /\ saveClosure' = [ea |-> editingAwardees, cs |-> currentSlide]
    /\ saveOwnerMounted' = TRUE
    /\ existingAwardees' = <<>>
    /\ deletesIssued' = {}
    /\ batchPayload' = <<>>
    /\ saveReqFailed' = FALSE
    /\ saveResult' = "none"
    /\ op' = Op("handleSave", NoIndex, NoIndex)
    /\ UNCHANGED <<appVars, editingAwardees, activeTab, deleteConfirmIndex, draggedIndex,
                   copyLayoutToAll, initializedSlides, isSaved, inflightDeletes, kv, srvVars, upVars,
                   crashed, everIds, editCount>>
    /\ UNCHANGED tabVars

\* catch: alert(...); finally: setIsSaving(false). The locals of the call
\* (existingAwardees, the delete set, the payload) go out of scope.
SaveThrows ==
    /\ savePc' = "idle"
    /\ existingAwardees' = <<>>
    /\ deletesIssued' = {}
    /\ batchPayload' = <<>>
    /\ saveResult' = "failed"
    /\ saveReqFailed' = TRUE
    /\ isSaving' = IF saveOwnerMounted THEN FALSE ELSE isSaving
    /\ UNCHANGED <<appVars, editingAwardees, activeTab, deleteConfirmIndex, draggedIndex,
                   copyLayoutToAll, initializedSlides, isSaved, saveSuccess, saveClosure,
                   saveOwnerMounted, crashed, everIds, editCount>>

\* the answer to GET /awardees arrives; the DELETE requests are issued
saveFetched(outcome) ==
    /\ savePc = "fetch" /\ ~crashed
    /\ op' = Op("saveFetched", NoIndex, NoIndex)
    /\ IF outcome = "neterr"
       THEN /\ SaveThrows
            /\ UNCHANGED <<inflightDeletes, kv, srvVars, upVars>>
       ELSE /\ \E data \in IF outcome = "ok"
                            THEN {r.awardees : r \in getAwardeesRoute(kv, storage, "none")}
                            ELSE {<<>>} :
                 /\ existingAwardees' = data
                 /\ deletesIssued' = awardeesToDelete(data, saveClosure.ea)
                 /\ inflightDeletes' = awardeesToDelete(data, saveClosure.ea)
                 /\ savePc' = afterFetch(awardeesToDelete(data, saveClosure.ea))
            /\ saveReqFailed' = (outcome # "ok")
            /\ UNCHANGED <<appVars, edVars, saveClosure, saveOwnerMounted, batchPayload,
                           saveResult, kv, srvVars, upVars, crashed, everIds, editCount>>
    /\ UNCHANGED tabVars

\* DELETE /awardees/:id is handled and its answer arrives. After a rejected
\* Promise.all the remaining requests are still served.
saveDeleted(id, outcome) ==
    /\ id \in inflightDeletes /\ ~crashed
    /\ op' = Op("saveDeleted", id, NoIndex)
    /\ inflightDeletes' = inflightDeletes \ {id}
    /\ \E fail \in IF outcome = "ok" THEN {"none"} ELSE {"kvGet"} :
          /\ kv' = deleteAwardeeRoute(kv, storage, id, fail).kv
          /\ storage' = deleteAwardeeRoute(kv, storage, id, fail).storage
    /\ UNCHANGED <<resp, upVars>>
    /\ IF savePc = "deleting" /\ outcome = "neterr"
       THEN SaveThrows
       ELSE /\ savePc' = IF savePc = "deleting" /\ inflightDeletes \ {id} = {}
                         THEN "batch" ELSE savePc
            /\ saveReqFailed' = (saveReqFailed \/ (savePc = "deleting" /\ outcome # "ok"))
            /\ UNCHANGED <<appVars, edVars, saveClosure, saveOwnerMounted, existingAwardees,
                           deletesIssued, batchPayload, saveResult, crashed, everIds, editCount>>
    /\ UNCHANGED tabVars

\* POST /awardees/batch
saveBatched(outcome) ==
    /\ savePc = "batch" /\ ~crashed
    /\ op' = Op("saveBatched", NoIndex, NoIndex)
    /\ kv' = IF outcome = "ok" THEN kvMset(kv, awardeesWithOrder(saveClosure.ea)) ELSE kv
    /\ UNCHANGED <<srvVars, upVars>>
    /\ IF outcome # "ok"
       THEN /\ SaveThrows
            /\ UNCHANGED inflightDeletes
       ELSE /\ savePc' = "categories"
            /\ batchPayload' = awardeesWithOrder(saveClosure.ea)
            /\ UNCHANGED <<appVars, edVars, saveClosure, saveOwnerMounted, existingAwardees,
                           inflightDeletes, deletesIssued, saveReqFailed, saveResult,
                           crashed, everIds, editCount>>
    /\ UNCHANGED tabVars

\* POST /custom-categories, then onUpdate(editingAwardees), setSaveSuccess(true),
\* setIsSaved(true) over the values the closure of handleSave holds
saveCategoriesPosted(outcome) ==
    /\ savePc = "categories" /\ ~crashed
    /\ op' = Op("saveCategoriesPosted", NoIndex, NoIndex)
    /\ IF outcome = "neterr"
       THEN /\ SaveThrows
            /\ UNCHANGED <<inflightDeletes, kv, srvVars, upVars>>
       ELSE /\ savePc' = "idle"
            /\ saveResult' = "success"
            /\ saveReqFailed' = (saveReqFailed \/ outcome # "ok")
            /\ LET stale == saveClosure.ea
                   cs1 == IF saveClosure.cs >= Len(stale)
                          THEN Max2(0, Len(stale) - 1) ELSE currentSlide
               IN  IF isEditorOpen
                   THEN /\ Commit(Settle(stale, activeTab, stale # awardees, FALSE,
                                         initializedSlides, layoutUpdateHandler,
                                         copyLayoutToAll, cs1,
                                         IF saveOwnerMounted THEN TRUE ELSE isSaved))
                        /\ isSaving' = IF saveOwnerMounted THEN FALSE ELSE isSaving
                        /\ saveSuccess' = IF saveOwnerMounted THEN TRUE ELSE saveSuccess
                        /\ UNCHANGED <<isEditorOpen, loading, isPreviewMode, editCount>>
                   ELSE /\ awardees' = stale
                        /\ currentSlide' = cs1
                        /\ crashed' = RenderThrows(stale, cs1, isPreviewMode)
                        /\ UNCHANGED <<isEditorOpen, loading, isPreviewMode, appLayoutEditMode,
                                       layoutEditSlideIndex, layoutUpdateHandler,
                                       editingAwardees, activeTab, initializedSlides,
                                       isSaving, isSaved, saveSuccess, everIds, editCount>>
            /\ existingAwardees' = <<>>
            /\ deletesIssued' = {}
            /\ batchPayload' = <<>>
            /\ UNCHANGED <<deleteConfirmIndex, draggedIndex, copyLayoutToAll, saveClosure,
                           saveOwnerMounted, inflightDeletes, kv, srvVars, upVars>>
    /\ UNCHANGED peer
    /\ lastSaver' = IF outcome = "neterr" THEN lastSaver ELSE "local"

\* setTimeout(() => setSaveSuccess(false), 3000)
saveSuccessTimeout ==
    /\ isEditorOpen /\ ~crashed
    /\ saveSuccess /\ saveOwnerMounted
    /\ saveSuccess' = FALSE
    /\ op' = Op("saveSuccessTimeout", NoIndex, NoIndex)
    /\ UNCHANGED <<appVars, editingAwardees, activeTab, deleteConfirmIndex, draggedIndex,
                   copyLayoutToAll, initializedSlides, isSaving, isSaved, saveVars, kv, srvVars, upVars,
                   crashed, everIds, editCount>>
    /\ UNCHANGED tabVars

\* ------------------------------------------------------- specifications
LoadOk == LoadAwardees({"ok"})

OrderNext ==
    \/ LoadOk
    \/ OpenEditor
    \/ \E index \in 0..MaxLen : SetActiveTab(index)
    \/ \E index \in 0..MaxLen : handleDragStart(index)
    \/ handleDragEnd
    \/ \E dropIndex \in 0..MaxLen : handleDrop(dropIndex)
    \/ handleAddAwardee
    \/ \E index \in 0..MaxLen : handleDuplicate(index)
    \/ \E index \in 0..MaxLen : handleDeleteAwardee(index)
    \/ confirmDelete
    \/ cancelDelete

\* the ordering and tab controller of the editor panel
Spec == Init /\ [][OrderNext]_vars

EditNext ==
    \/ LoadOk
    \/ OpenEditor
    \/ \E index \in 0..MaxLen : handleDragStart(index)
    \/ \E dropIndex \in 0..MaxLen : handleDrop(dropIndex)
    \/ handleAddAwardee
    \/ \E index \in 0..MaxLen : handleDuplicate(index)
    \/ \E index \in 0..MaxLen : handleDeleteAwardee(index)
    \/ confirmDelete
    \/ cancelDelete
    \/ \E value \in NameInputs : handleFieldChange(value)
    \/ \E index \in 0..MaxLen : handleToggleHide(index)
    \/ \E index \in 0..MaxLen, value \in TabNameInputs : confirmRename(index, value)

\* ordering together with the content edits of the panel
SpecEdit == Init /\ [][EditNext]_vars

SaveNext ==
    \/ LoadOk
    \/ OpenEditor
    \/ \E index \in 0..MaxLen : handleDragStart(index)
    \/ \E dropIndex \in 0..MaxLen : handleDrop(dropIndex)
    \/ \E index \in 0..MaxLen : handleDeleteAwardee(index)
    \/ confirmDelete
    \/ handleSave
    \/ \E outcome \in Outcomes : saveFetched(outcome)
    \/ \E id \in 1..MaxId, outcome \in Outcomes : saveDeleted(id, outcome)
    \/ \E outcome \in Outcomes : saveBatched(outcome)
    \/ \E outcome \in Outcomes : saveCategoriesPosted(outcome)
    \/ saveSuccessTimeout

\* one editor session editing and saving against the backend
SpecSave == Init /\ [][SaveNext]_vars

\* ------------------------------------------- handleSave in a second tab
\* the working copies of the second session: it loaded the stored records
\* and added a record, or deleted the second one
PeerCopies ==
    LET loaded == CHOOSE p \in sortedAwardees(CHOOSE st \in SeedStores : TRUE) : TRUE
    IN  {Append(loaded, Awardee(3, "New Awardee")), SubSeq(loaded, 1, 1)}

PeerStep(name) ==
    /\ op' = Op(name, NoIndex, NoIndex)
    /\ UNCHANGED <<appVars, edVars, saveVars, upVars, resp, crashed, everIds, editCount>>

peerHandleSave(ea) ==
    /\ peer.pc = "idle"
    /\ peer' = [pc |-> "fetch", ea |-> ea, inflight |-> {}]
    /\ PeerStep("peerHandleSave")
    /\ UNCHANGED <<kv, storage, lastSaver>>

peerFetched ==
    /\ peer.pc = "fetch"
    /\ \E data \in {r.awardees : r \in getAwardeesRoute(kv, storage, "none")} :
          peer' = [peer EXCEPT !.inflight = awardeesToDelete(data, peer.ea),
                               !.pc = IF awardeesToDelete(data, peer.ea) = {}
                                      THEN "batch" ELSE "deleting"]
    /\ PeerStep("peerFetched")
    /\ UNCHANGED <<kv, storage, lastSaver>>

peerDeleted(id) ==
    /\ peer.pc = "deleting"
    /\ id \in peer.inflight
    /\ kv' = deleteAwardeeRoute(kv, storage, id, "none").kv
    /\ storage' = deleteAwardeeRoute(kv, storage, id, "none").storage
    /\ peer' = [peer EXCEPT !.inflight = @ \ {id},
                            !.pc = IF peer.inflight \ {id} = {} THEN "batch" ELSE @]
    /\ PeerStep("peerDeleted")
    /\ UNCHANGED lastSaver

peerBatched ==
    /\ peer.pc = "batch"
    /\ kv' = kvMset(kv, awardeesWithOrder(peer.ea))
    /\ peer' = [peer EXCEPT !.pc = "categories"]
    /\ PeerStep("peerBatched")
    /\ UNCHANGED <<storage, lastSaver>>

peerCategoriesPosted ==
    /\ peer.pc = "categories"
    /\ peer' = [peer EXCEPT !.pc = "done"]
    /\ lastSaver' = "peer"
    /\ PeerStep("peerCategoriesPosted")
    /\ UNCHANGED <<kv, storage>>

TwoTabNext ==
    \/ LoadOk
    \/ OpenEditor
    \/ handleSave
    \/ saveFetched("ok")
    \/ \E id \in 1..MaxId : saveDeleted(id, "ok")
    \/ saveBatched("ok")
    \/ saveCategoriesPosted("ok")
    \/ \E ea \in PeerCopies : peerHandleSave(ea)
    \/ peerFetched
    \/ \E id \in 1..MaxId : peerDeleted(id)
    \/ peerBatched
    \/ peerCategoriesPosted

\* two editor sessions saving against the same backend, every request
\* answered successfully
SpecTwoTabs == Init /\ [][TwoTabNext]_vars

LayoutNext ==
    \/ LoadOk
    \/ OpenEditor
    \/ \E index \in 0..MaxLen : SetActiveTab(index)
    \/ CloseEditor
    \/ handleAddAwardee
    \/ handleCopyLayoutToAllChange
    \/ handleResetLayout
    \/ \E elementId \in EditElements, rect \in RectInputs : handleLayoutUpdate(elementId, rect)

\* one editor session arranging the elements of the slides
SpecLayout == Init /\ [][LayoutNext]_vars

\* the stores the application may find at start: empty, the seed, or one
\* record that reuses a default id
LoadStores ==
    {EmptyStore} \cup SeedStores \cup {StoreOf(<< [Awardee(1, "Saved Name") EXCEPT !.order = 0] >>)}

InitLoad ==
    /\ ClientInit
    /\ kv \in LoadStores
    /\ storage = {}
    /\ resp = NoResponse

LoadNext ==
    \/ LoadAwardees(Outcomes)
    \/ EnterPreview
    \/ \E key \in NavKeys : handleKeyDown(key)
    \/ clickPrevSlide
    \/ clickNextSlide
    \/ \E index \in 0..MaxLen : clickIndicator(index)
    \/ OpenEditor
    \/ CloseEditor

\* the initial load under every answer of GET /awardees, then presenting
SpecLoad == InitLoad /\ [][LoadNext]_vars

LayoutEditNext ==
    \/ LoadOk
    \/ OpenEditor
    \/ \E index \in 0..MaxLen : SetActiveTab(index)
    \/ \E value \in NameInputs : handleFieldChange(value)
    \/ \E index \in 0..MaxLen : handleToggleHide(index)
    \/ handleCopyLayoutToAllChange
    \/ \E elementId \in EditElements, rect \in RectInputs : handleLayoutUpdate(elementId, rect)

\* content edits in the panel between layout edits on the canvas
SpecLayoutEdit == Init /\ [][LayoutEditNext]_vars

PreviewNext ==
    \/ LoadOk
    \/ OpenEditor
    \/ CloseEditor
    \/ \E index \in 0..MaxLen : SetActiveTab(index)
    \/ handleAddAwardee
    \/ \E index \in 0..MaxLen : handleToggleHide(index)
    \/ EnterPreview
    \/ \E key \in NavKeys : handleKeyDown(key)
    \/ clickPrevSlide
    \/ clickNextSlide
    \/ \E index \in 0..MaxLen : clickIndicator(index)

\* hiding slides in the editor and presenting them
SpecPreview == Init /\ [][PreviewNext]_vars

\* the records a store may hold under awardee:{id}
OrderInputs == {NoOrder, 0, 1}

StoredRecords ==
    {[Awardee(i, "Stored") EXCEPT !.order = o, !.photoPath = q] :
        i \in 1..MaxId, o \in OrderInputs, q \in {NoPath} \cup Paths}

ServerStores ==
    UNION {{f \in [S -> StoredRecords] : \A i \in S : f[i].id = i} : S \in SUBSET (1..MaxId)}

\* bodies of POST /awardees
PostInputs ==
    {[Awardee(1, "Posted") EXCEPT !.photoPath = "a.png"],
     [Awardee(2, "Posted") EXCEPT !.order = 0]}

InitServer ==
    /\ ClientInit
    /\ kv \in ServerStores
    /\ storage \in SUBSET Paths
    /\ resp = NoResponse

ServerNext ==
    \/ \E fail \in GetFails : GetAwardees(fail)
    \/ \E rec \in PostInputs, fail \in PostFails : PostAwardee(rec, fail)
    \/ \E id \in 1..MaxId, fail \in DeleteFails : DeleteAwardee(id, fail)

\* the routes of the server over arbitrary stores and buckets
SpecServer == InitServer /\ [][ServerNext]_vars

DeleteNext ==
    \/ LoadOk
    \/ OpenEditor
    \/ \E index \in 0..MaxLen : SetActiveTab(index)
    \/ handleAddAwardee
    \/ \E index \in 0..MaxLen : handleDeleteAwardee(index)
    \/ confirmDelete
    \/ confirmDeleteNoPending
    \/ cancelDelete

\* one editor session adding and deleting records
SpecDelete == Init /\ [][DeleteNext]_vars

UploadNext ==
    \/ LoadOk
    \/ OpenEditor
    \/ \E index \in 0..MaxLen : SetActiveTab(index)
    \/ \E value \in NameInputs : handleFieldChange(value)
    \/ handleApplyLogoToAllChange
    \/ handlePhotoUpload
    \/ handleOrganizationLogoUpload
    \/ \E fail \in UploadFails : uploadAnswered(fail)

\* one editor session uploading photos and logos while editing
SpecUpload == Init /\ [][UploadNext]_vars

\* The id rule applied to arbitrary working copies: every sequence of records
\* with distinct ids drawn from IdInputs, the empty one included.
IdInputs == {-1, 1, 2}

WorkingCopies ==
    {s \in UNION {[1..n -> {Awardee(i, "Awardee") : i \in IdInputs}] : n \in 0..(MaxLen - 1)} :
        \A m, n \in 1..Len(s) : m # n => s[m].id # s[n].id}

InitNewId ==
    /\ editingAwardees \in WorkingCopies
    /\ awardees = editingAwardees
    /\ currentSlide = 0
    /\ isEditorOpen = TRUE
    /\ loading = FALSE
    /\ isPreviewMode = FALSE
    /\ appLayoutEditMode = TRUE
    /\ layoutEditSlideIndex = 0
    /\ layoutUpdateHandler = [set |-> TRUE, ea |-> editingAwardees, tab |-> 0,
                              copy |-> FALSE, cs |-> 0]
    /\ activeTab = 0
    /\ deleteConfirmIndex = NoIndex
    /\ draggedIndex = NoIndex
    /\ copyLayoutToAll = FALSE
    /\ initializedSlides = {}
    /\ isSaving = FALSE
    /\ isSaved = FALSE
    /\ saveSuccess = FALSE
    /\ savePc = "idle"
    /\ saveClosure = [ea |-> <<>>, cs |-> 0]
    /\ saveOwnerMounted = FALSE
    /\ existingAwardees = <<>>
    /\ inflightDeletes = {}
    /\ deletesIssued = {}
    /\ batchPayload = <<>>
    /\ saveReqFailed = FALSE
    /\ saveResult = "none"
    /\ kv = EmptyStore
    /\ storage = {}
    /\ resp = NoResponse
    /\ applyLogoToAll = FALSE
    /\ uploading = FALSE
    /\ uploadPc = "idle"
    /\ uploadClosure = NoUpload
    /\ uploadOwnerMounted = FALSE
    /\ peer = NoPeer
    /\ lastSaver = "none"
    /\ crashed = FALSE
    /\ op = Op("init", NoIndex, NoIndex)
    /\ everIds = Ids(editingAwardees)
    /\ editCount = 0

NewIdNext ==
    \/ handleAddAwardee
    \/ \E index \in 0..MaxLen : handleDuplicate(index)
    \/ \E index \in 0..MaxLen : handleDeleteAwardee(index)
    \/ confirmDelete
    \/ cancelDelete

SpecNewId == InitNewId /\ [][NewIdNext]_vars

\* ------------------------------------------------------------ properties
\* a record without its layout (the layout effect may seed the active slide)
Content(a) == [a EXCEPT !.layout = NoLayout]

ContentSeq(s) == [k \in 1..Len(s) |-> Content(s[k])]

ValidDrop(o, ea) ==
    /\ o.name = "handleDrop"
    /\ o.i # o.j
    /\ o.i \in 0..(Len(ea) - 1)
    /\ o.j \in 0..(Len(ea) - 1)

\* C1: a reorder with valid indices draggedIndex # dropIndex keeps the length
\* and the set of ids, puts the dragged record at dropIndex and keeps the
\* relative order of all other records.
ReorderIsPermutation ==
    [][ValidDrop(op', editingAwardees) =>
          LET before == editingAwardees
              after == editingAwardees'
          IN  /\ Len(after) = Len(before)
              /\ Ids(after) = Ids(before)
              /\ Content(At(after, op'.j)) = Content(At(before, op'.i))
              /\ ContentSeq(RemoveAt(after, op'.j)) = ContentSeq(RemoveAt(before, op'.i))]_vars

ReorderHappened ==
    /\ ValidDrop(op, editingAwardees)
    /\ ~crashed
    /\ Len(editingAwardees) = 3
    /\ op.i = 0 /\ op.j = 2

\* C2: after a reorder activeTab points at the record with the id it pointed
\* at before; a dragged active record is followed to dropIndex.
ActiveTabFollowsRecord ==
    [][(ValidDrop(op', editingAwardees) /\ activeTab \in 0..(Len(editingAwardees) - 1)) =>
          /\ activeTab' \in 0..(Len(editingAwardees') - 1)
          /\ At(editingAwardees', activeTab').id = At(editingAwardees, activeTab).id
          /\ (activeTab = op'.i => activeTab' = op'.j)]_vars

ActiveTabShifted ==
    /\ ValidDrop(op, editingAwardees)
    /\ ~crashed
    /\ op.j = activeTab - 1
    /\ op.i > activeTab - 1

\* C3: record ids are unique within the working copy (and within the
\* collection the App displays) in every reachable state.
UniqueIn(s) == \A m, n \in 1..Len(s) : m # n => s[m].id # s[n].id

IdsUnique == UniqueIn(editingAwardees) /\ UniqueIn(awardees)

EditedCollectionGrown ==
    /\ op.name = "handleDuplicate"
    /\ ~crashed
    /\ Len(editingAwardees) = 3
    /\ \E k \in 1..3 : editingAwardees[k].tabName = "Finalist (Copy)"

\* the id of the record an Add or Duplicate step created
Creates(o) == o.name \in {"handleAddAwardee", "handleDuplicate"}

CreatedId(o, before, after) ==
    IF o.name = "handleAddAwardee" THEN At(after, Len(before)).id ELSE At(after, o.j + 1).id

\* C4: Add and Duplicate give the new record the id max(existing ids, 0) + 1:
\* it is greater than every id present, its predecessor is the largest id
\* present or 0, and on an empty collection it is 1.
NewIdIsMaxPlusOne ==
    [][Creates(op') =>
          LET before == editingAwardees
              nid == CreatedId(op', editingAwardees, editingAwardees')
          IN  /\ Len(editingAwardees') = Len(before) + 1
              /\ \A k \in 1..Len(before) : before[k].id < nid
              /\ (nid - 1) \in (Ids(before) \cup {0})
              /\ nid >= 1
              /\ (before = <<>> => nid = 1)]_vars

AddedToEmpty ==
    /\ op.name = "handleAddAwardee"
    /\ Len(editingAwardees) = 1
    /\ editingAwardees[1].id = 1

\* C5: the id given to a newly created record differs from the id of every
\* record that ever existed in the working copy.
NewIdNeverUsedBefore ==
    [][Creates(op') =>
          CreatedId(op', editingAwardees, editingAwardees') \notin everIds]_vars

\* ------------------------------------------------------------------ save
\* the working copy handleSave was invoked on, re-numbered by position
Numbered(ea) == [k \in 1..Len(ea) |-> [ea[k] EXCEPT !.order = k - 1]]

\* C6: the DELETE requests of a save are issued for exactly the fetched ids
\* that are not in the working copy, and the batch payload is the working
\* copy, record by record, each with order equal to its zero-based position.
SaveReconciles ==
    /\ savePc \in {"deleting", "batch", "categories"} =>
           deletesIssued = Ids(existingAwardees) \ Ids(saveClosure.ea)
    /\ savePc = "categories" =>
           /\ batchPayload = Numbered(saveClosure.ea)
           /\ UniqueIn(batchPayload)

\* a save that deleted a record and re-numbered a reordered one
SaveReconciledReorder ==
    /\ savePc = "categories"
    /\ deletesIssued # {}
    /\ Ids(existingAwardees) \ deletesIssued # {}
    /\ \E k \in 1..Len(saveClosure.ea) : saveClosure.ea[k].order # k - 1

\* the last save reported success and none of its requests failed
SaveCompleted ==
    /\ op.name = "saveCategoriesPosted"
    /\ saveResult = "success"
    /\ ~saveReqFailed

SaveReportsAnyFailure ==
    op.name \in {"saveFetched", "saveDeleted", "saveBatched", "saveCategoriesPosted"}
    /\ savePc = "idle"
    => /\ saveReqFailed => saveResult = "failed" /\ ~saveSuccess /\ ~isSaved
       /\ saveOwnerMounted => ~isSaving

\* ---------------------------------------------------------------- layout
Layouts(s) == [k \in 1..Len(s) |-> s[k].layout]

\* C9: with the copy-layout toggle on and a slide other than the first
\* active, a drag or resize on the canvas changes no slide's stored layout.
LayoutEditOffFirstSlideIsNoOp ==
    [][(op'.name = "handleLayoutUpdate" /\ isEditorOpen /\ copyLayoutToAll /\ activeTab # 0)
         => Layouts(editingAwardees') = Layouts(editingAwardees)]_vars

\* C10: activating a slide changes no record but the activated one, and that
\* one only from no stored layout to the default rectangles; a slide with a
\* stored layout keeps it however often it is activated.
LayoutInitIdempotent ==
    [][(op'.name \in {"setActiveTab", "openEditor"} /\ ~crashed')
         => LET before == IF op'.name = "openEditor" THEN awardees ELSE editingAwardees
            IN  /\ Len(editingAwardees') = Len(before)
                /\ \A k \in 1..Len(before) :
                       \/ editingAwardees'[k] = before[k]
                       \/ /\ k = activeTab' + 1
                          /\ DOMAIN before[k].layout = {}
                          /\ editingAwardees'[k] = [before[k] EXCEPT !.layout = defaultPositions]]_vars

\* a slide whose layout the user changed was activated again and kept it
ReactivatedEditedSlide ==
    /\ op.name = "setActiveTab"
    /\ ~crashed
    /\ activeTab \in TabIndices
    /\ DOMAIN At(editingAwardees, activeTab).layout # {}
    /\ At(editingAwardees, activeTab).layout # defaultPositions

\* --------------------------------------------------------------- preview
\* C11: in preview mode with the editor closed the slide shown is a
\* non-hidden record, and ArrowRight / ArrowLeft move currentSlide by one
\* modulo the number of non-hidden records.
PreviewShowsVisibleRecord ==
    /\ [](isPreviewMode /\ ~isEditorOpen /\ ~loading
            => /\ currentSlide \in 0..(Len(SelectSeqVisible(awardees)) - 1)
               /\ ~SelectSeqVisible(awardees)[currentSlide + 1].isHidden)
    /\ [][(isPreviewMode /\ ~isEditorOpen /\ op'.name \in {"ArrowRight", "ArrowLeft"})
            => LET n == Len(SelectSeqVisible(awardees))
               IN  currentSlide' = IF op'.name = "ArrowRight"
                                   THEN (currentSlide + 1) % n
                                   ELSE (currentSlide + n - 1) % n]_vars

\* ---------------------------------------------------------------- server
DeleteStep == op'.name = "DELETE /awardees/:id"

DeletedMissingRecord ==
    /\ op.name = "DELETE /awardees/:id"
    /\ op.j = 0
    /\ resp.status = 200 /\ resp.fault = "none"
    /\ Cardinality(DOMAIN kv) = 3

\* ---------------------------------------------------------------- delete
\* C13: the working copy of the open editor is never empty.
WorkingCopyNeverEmpty == (isEditorOpen /\ ~loading) => Len(editingAwardees) >= 1

\* C14: a delete request only sets the pending index and cancel only clears
\* it, both leaving the working copy and activeTab alone; a record leaves the
\* working copy only in a confirm step taken with a pending index, and a
\* confirm without a pending index changes nothing.
DeleteIsTwoPhase ==
    [][/\ op'.name = "handleDeleteAwardee" =>
            /\ deleteConfirmIndex' = op'.i
            /\ editingAwardees' = editingAwardees /\ activeTab' = activeTab
            /\ awardees' = awardees
       /\ op'.name = "cancelDelete" =>
            /\ deleteConfirmIndex' = NoIndex
            /\ editingAwardees' = editingAwardees /\ activeTab' = activeTab
            /\ awardees' = awardees
       /\ (isEditorOpen /\ ~(Ids(editingAwardees) \subseteq Ids(editingAwardees'))) =>
            op'.name = "confirmDelete" /\ deleteConfirmIndex # NoIndex
       /\ (op'.name = "confirmDelete" /\ deleteConfirmIndex = NoIndex) =>
            /\ editingAwardees' = editingAwardees /\ activeTab' = activeTab
            /\ awardees' = awardees /\ deleteConfirmIndex' = NoIndex]_vars

\* a delete was requested for a tab other than the active one
DeletePending ==
    /\ op.name = "handleDeleteAwardee"
    /\ deleteConfirmIndex # NoIndex
    /\ deleteConfirmIndex # activeTab
    /\ Len(editingAwardees) = 3

\* C15: a confirm step with a pending index removes exactly the record at
\* that index, clears the pending index, and leaves activeTab within
\* 0..length-1 of the resulting collection.
ConfirmDeleteRemovesPending ==
    [][(op'.name = "confirmDelete" /\ deleteConfirmIndex # NoIndex) =>
         /\ Len(editingAwardees') = Len(editingAwardees) - 1
         /\ IdSeq(editingAwardees') = IdSeq(RemoveAt(editingAwardees, deleteConfirmIndex))
         /\ deleteConfirmIndex' = NoIndex
         /\ activeTab' \in 0..(Len(editingAwardees') - 1)]_vars

\* --------------------------------------------------------------- uploads
\* a step in which an upload started by the mounted panel completes
\* successfully: the route stored a new object
UploadCompletes(kind) ==
    /\ op'.name = "uploadAnswered"
    /\ uploadClosure.kind = kind
    /\ isEditorOpen /\ uploadOwnerMounted
    /\ storage' # storage

\* a record without the fields an upload writes
WithoutImages(a) ==
    [a EXCEPT !.photo = NoPath, !.photoPath = NoPath,
              !.organizationLogo = NoPath, !.organizationLogoPath = NoPath]

WithoutLogo(a) == [a EXCEPT !.organizationLogo = NoPath, !.organizationLogoPath = NoPath]

\* C16: when a logo upload completes that was started on the first slide
\* with 'apply logo to all' on, every record of the working copy carries the
\* returned URL and path; otherwise only the logo fields of the targeted
\* record change.
LogoUploadAppliesToAll ==
    [][UploadCompletes("handleOrganizationLogoUpload") =>
         LET path == CHOOSE q \in storage' \ storage : TRUE
             c == uploadClosure
         IN  IF c.applyAll /\ c.index = 0
             THEN \A k \in 1..Len(editingAwardees') :
                     /\ editingAwardees'[k].organizationLogoPath = path
                     /\ editingAwardees'[k].organizationLogo \in {SignedUrl(path), NoPath}
                     /\ editingAwardees'[k].organizationLogo = editingAwardees'[1].organizationLogo
             ELSE /\ Len(editingAwardees') = Len(editingAwardees)
                  /\ \A k \in 1..Len(editingAwardees) :
                        IF k = c.index + 1
                        THEN /\ WithoutLogo(editingAwardees'[k]) = WithoutLogo(editingAwardees[k])
                             /\ editingAwardees'[k].organizationLogoPath = path
                        ELSE editingAwardees'[k] = editingAwardees[k]]_vars

\* C18: when an upload completes, the working copy is the working copy of
\* that moment with nothing changed but image fields, and the uploaded photo
\* is on the record the upload was started for.
UploadMergesIntoCurrent ==
    [][(UploadCompletes("handlePhotoUpload") \/ UploadCompletes("handleOrganizationLogoUpload")) =>
         LET path == CHOOSE q \in storage' \ storage : TRUE
             c == uploadClosure
             target == At(c.ea, c.index).id
         IN  /\ Len(editingAwardees') = Len(editingAwardees)
             /\ \A k \in 1..Len(editingAwardees) :
                    WithoutImages(editingAwardees'[k]) = WithoutImages(editingAwardees[k])
             /\ c.kind = "handlePhotoUpload" =>
                    \A k \in 1..Len(editingAwardees') :
                       (editingAwardees'[k].photoPath = path) = (editingAwardees'[k].id = target)]_vars

\* --------------------------------------------------------- GET /awardees
\* a step in which GET /awardees answers
GetStep == op'.name = "GET /awardees"

\* C19: a successful GET /awardees returns every stored record exactly once,
\* each pair of the answer in the comparator's order, and the stored set
\* admits exactly one such answer whatever the scan order.
GetReturnsOneSortedSequence ==
    [][(GetStep /\ resp'.status = 200) =>
         LET p == resp'.awardees
         IN  /\ Len(p) = Cardinality(DOMAIN kv)
             /\ \A i \in DOMAIN kv : \E k \in 1..Len(p) : p[k].id = i
             /\ \A i \in 1..Len(p) : \A j \in (i + 1)..Len(p) :
                    IF p[i].order # NoOrder /\ p[j].order # NoOrder
                    THEN p[i].order <= p[j].order ELSE p[i].id <= p[j].id
             /\ Cardinality({r \in getAwardeesRoute(kv, storage, resp'.fault) :
                               r.status = 200}) = 1]_vars

\* C20: GET /awardees answers 500 whenever the scan or a storage call
\* fails, and a 200 answer carries the signed URL for every record that has
\* a photoPath.
GetFailsWithStorage ==
    [][GetStep =>
         /\ (resp'.fault = "kvScan"
               \/ (resp'.fault \in {"signError", "signThrows"}
                     /\ \E i \in DOMAIN kv : kv[i].photoPath # NoPath))
               => resp'.status = 500
         /\ resp'.status = 200 =>
               \A k \in 1..Len(resp'.awardees) :
                  resp'.awardees[k].photoPath # NoPath =>
                     resp'.awardees[k].photo = SignedUrl(resp'.awardees[k].photoPath)]_vars

\* ----------------------------------------------------- concurrent saves
\* the saves of both sessions have completed
BothSaved ==
    /\ peer.pc = "done"
    /\ saveResult = "success" /\ savePc = "idle" /\ inflightDeletes = {}

\* C17: once the saves of both sessions have completed, the stored records
\* are exactly the working copy (with its positions as order) of the session
\* whose save completed last.
LastWriterWins ==
    BothSaved =>
        LET last == IF lastSaver = "peer" THEN peer.ea ELSE saveClosure.ea
        IN  kvGetByPrefix(kv) = {[last[k] EXCEPT !.order = k - 1] : k \in 1..Len(last)}

\* ------------------------------------------------- navigation and editor
\* the navigation inputs of the App: arrow keys and the chevron controls
NavigationInputs == {"ArrowLeft", "ArrowRight", "clickPrevSlide", "clickNextSlide"}

\* C21: while the editor panel is open no navigation input changes
\* currentSlide, and with the editor closed Escape in preview mode turns
\* preview mode off.
NavigationDisabledWhileEditing ==
    /\ [][(isEditorOpen /\ op'.name \in NavigationInputs) =>
             currentSlide' = currentSlide]_vars
    /\ [][(~isEditorOpen /\ isPreviewMode /\ op'.name = "Escape") => ~isPreviewMode']_vars

\* ------------------------------------------------------------- duplicate
\* a record without the two fields a duplicate changes
WithoutIdAndTabName(a) == [a EXCEPT !.id = 0, !.tabName = ""]

\* C22: duplicating the record at index i inserts the clone at i + 1, keeps
\* every other record (those after i shifted by one), the clone equals the
\* source except for id and tabName, its tabName is the source's followed by
\* " (Copy)" when the source has one, and activeTab becomes i + 1.
DuplicateInsertsCloneAfterSource ==
    [][op'.name = "handleDuplicate" =>
         LET i == op'.j
             src == editingAwardees[i + 1]
             clone == editingAwardees'[i + 2]
         IN  /\ Len(editingAwardees') = Len(editingAwardees) + 1
             /\ \A k \in 1..(i + 1) : editingAwardees'[k] = editingAwardees[k]
             /\ \A k \in (i + 2)..Len(editingAwardees) : editingAwardees'[k + 1] = editingAwardees[k]
             /\ WithoutIdAndTabName(clone) = WithoutIdAndTabName(src)
             /\ clone.id \notin Ids(editingAwardees)
             /\ clone.tabName = IF src.tabName # "" THEN src.tabName \o " (Copy)" ELSE ""
             /\ activeTab' = i + 1]_vars

\* a renamed record that is not the last one has been duplicated
DuplicatedRenamedRecord ==
    /\ op.name = "handleDuplicate"
    /\ Len(editingAwardees) = 3
    /\ op.j = 0
    /\ editingAwardees[2].tabName = "Finalist (Copy)"
    /\ activeTab = 1

\* a record without id, tabName and layout
WithoutIdTabNameLayout(a) == [a EXCEPT !.id = 0, !.tabName = "", !.layout = NoLayout]

\* C22 (amended): as C22, but the clone's layout is the source's layout, or
\* the default layout when the source has none: the clone becomes the active
\* tab and the layout initialisation of that tab seeds it.
DuplicateClonesUpToSeededLayout ==
    [][op'.name = "handleDuplicate" =>
         LET i == op'.j
             src == editingAwardees[i + 1]
             clone == editingAwardees'[i + 2]
         IN  /\ Len(editingAwardees') = Len(editingAwardees) + 1
             /\ \A k \in 1..(i + 1) : editingAwardees'[k] = editingAwardees[k]
             /\ \A k \in (i + 2)..Len(editingAwardees) : editingAwardees'[k + 1] = editingAwardees[k]
             /\ WithoutIdTabNameLayout(clone) = WithoutIdTabNameLayout(src)
             /\ \/ clone.layout = src.layout
                \/ DOMAIN src.layout = {} /\ clone.layout = defaultPositions
             /\ clone.id \notin Ids(editingAwardees)
             /\ clone.tabName = IF src.tabName # "" THEN src.tabName \o " (Copy)" ELSE ""
             /\ activeTab' = i + 1]_vars

WithoutLayout(a) == [a EXCEPT !.layout = NoLayout]

\* C24: a layout update from the canvas leaves every field other than layout
\* of every record as it is in the working copy, and changes the layout of
\* the active slide only, or of every slide when propagating from the first.
LayoutUpdateChangesOnlyLayout ==
    [][(op'.name = "handleLayoutUpdate" /\ isEditorOpen) =>
         /\ Len(editingAwardees') = Len(editingAwardees)
         /\ \A k \in 1..Len(editingAwardees) :
                /\ WithoutLayout(editingAwardees'[k]) = WithoutLayout(editingAwardees[k])
                /\ (k # activeTab + 1 /\ ~(copyLayoutToAll /\ activeTab = 0)) =>
                       editingAwardees'[k] = editingAwardees[k]]_vars

\* ------------------------------------------------------- referenced files
\* C25: deleting a record never removes a storage object that a remaining
\* stored record references through its photoPath.
DeleteKeepsReferencedFiles ==
    [][op'.name = "DELETE /awardees/:id" =>
         \A i \in DOMAIN kv' \ {op'.i} :
            (kv'[i].photoPath # NoPath /\ kv'[i].photoPath \in storage) =>
               kv'[i].photoPath \in storage']_vars

\* ----------------------------------------------------------- initial load
\* C28: the initial load writes to the backend only when the store it read
\* is empty; a load that finds records, or fails, creates or overwrites none.
LoadWritesDefaultsOnlyWhenEmpty ==
    [][(op'.name = "loadAwardees" /\ kv' # kv) => kv = EmptyStore]_vars

\* ------------------------------------------------- displayed record exists
\* C26: once loaded, currentSlide is an index into the collection being
\* displayed: all awardees outside preview mode, the non-hidden ones in
\* preview mode.
CurrentSlideValid ==
    ~loading =>
        LET shown == IF isPreviewMode
                     THEN SelectSeqVisible(awardees)
                     ELSE awardees
        IN  currentSlide \in 0..(Len(shown) - 1)

\* ---------------------------------------------------------- saved marker
\* C27: while isSaved is set the working copy is the collection of the last
\* successful batch upsert, and the completion of a save does not change the
\* working copy: an edit made while the save was in flight is kept, and is
\* then not marked as saved.
SavedMeansWorkingCopySent ==
    /\ []((isEditorOpen /\ isSaved /\ ~crashed) => editingAwardees = saveClosure.ea)
    /\ [][(op'.name = "saveCategoriesPosted" /\ saveResult' = "success" /\ isEditorOpen) =>
             /\ editingAwardees' = editingAwardees
             /\ isSaved' => editingAwardees' = saveClosure.ea]_vars

\* ------------------------------------------- delete keeps the active record
\* C29: confirming the deletion of a record other than the active one leaves
\* activeTab on the record with the id it pointed at before.
DeleteOtherKeepsActiveRecord ==
    [][(/\ op'.name = "confirmDelete"
        /\ deleteConfirmIndex \in 0..(Len(editingAwardees) - 1)
        /\ activeTab \in 0..(Len(editingAwardees) - 1)
        /\ deleteConfirmIndex # activeTab) =>
          /\ activeTab' \in 0..(Len(editingAwardees') - 1)
          /\ editingAwardees'[activeTab' + 1].id = editingAwardees[activeTab + 1].id]_vars

\* ------------------------------------------ layout editing needs the panel
\* C30: while the editor panel is closed the layout-edit flag and the
\* layout-update handler of the App are inactive, and a layout edit is
\* accepted only with the panel open and the canvas on the active tab.
LayoutEditOnlyWhileEditorOpen ==
    /\ [](~isEditorOpen => (~appLayoutEditMode /\ ~layoutUpdateHandler.set))
    /\ [][op'.name = "handleLayoutUpdate" => (isEditorOpen /\ currentSlide = activeTab)]_vars
====
